---- MODULE Spec2Model ----
(***************************************************************************)
(* ESP32 Datalogger client (src/main.py, class DataLogger).                *)
(*                                                                         *)
(* Text is a sequence of one-character strings.  Numbers read from text    *)
(* as float are held in fixed point, Scale units per 1.0, and products and *)
(* quotients are truncated toward zero.  What is only displayed            *)
(* (data_textbox, axis ticks, labels) is left out.                         *)
(***************************************************************************)
EXTENDS Integers, Sequences, FiniteSets, TLC

\* ------------------------------------------------------------------ bounds
MaxThreads == 2     \* receive threads ever started
MaxRecv    == 2     \* record lines delivered by recv() in PipeSpec
MaxNetRecv == 1     \* chunks delivered by recv() in Spec and NetSpec
MaxQueue   == 1     \* pending @mainthread callbacks
MaxGraphs  == 2     \* graphs in the container
MaxStream  == 4     \* characters of the stream fed to a single framer
MaxChannels == 5    \* graphs in the container in RegistrySpec

\* --------------------------------------------------------------- constants
Scale == 100        \* fixed-point units per 1.0
VRef  == 330        \* the literal 3.3 of update_graph, in Scale units
XMax0 == 100        \* xmax of a new Graph
Arity == 5          \* fields of a record

NL == "\n"
CR == "\r"
Comma == ","
Dot == "."
Minus == "-"

Whitespace == {CR, " "}
DigitChars == {"0", "1", "2", "3", "4", "5", "6", "7", "8", "9"}

DigitVal(c) ==
    CASE c = "0" -> 0 [] c = "1" -> 1 [] c = "2" -> 2 [] c = "3" -> 3
      [] c = "4" -> 4 [] c = "5" -> 5 [] c = "6" -> 6 [] c = "7" -> 7
      [] c = "8" -> 8 [] c = "9" -> 9

\* ------------------------------------------------------------ str methods
\* position of the first occurrence of c in s, 0 if none
RECURSIVE FindFrom(_, _, _)
FindFrom(s, c, i) ==
    IF i > Len(s) THEN 0
    ELSE IF s[i] = c THEN i
    ELSE FindFrom(s, c, i + 1)

Find(s, c) == FindFrom(s, c, 1)

\* str.split(sep): every separator cuts, empty fields are kept
RECURSIVE Split(_, _)
Split(s, sep) ==
    LET k == Find(s, sep)
    IN IF k = 0 THEN <<s>>
       ELSE <<SubSeq(s, 1, k - 1)>> \o Split(SubSeq(s, k + 1, Len(s)), sep)

RECURSIVE LStrip(_)
LStrip(s) ==
    IF s # <<>> /\ s[1] \in Whitespace THEN LStrip(Tail(s)) ELSE s

RECURSIVE RStrip(_)
RStrip(s) ==
    IF s # <<>> /\ s[Len(s)] \in Whitespace
    THEN RStrip(SubSeq(s, 1, Len(s) - 1)) ELSE s

\* str.strip()
Strip(s) == LStrip(RStrip(s))

AllDigits(s) == \A i \in 1..Len(s) : s[i] \in DigitChars

RECURSIVE DigitsVal(_)
DigitsVal(s) ==
    IF s = <<>> THEN 0
    ELSE 10 * DigitsVal(SubSeq(s, 1, Len(s) - 1)) + DigitVal(s[Len(s)])

\* a leading minus sign, and the text after it
Negative(t) == t # <<>> /\ t[1] = Minus
Unsigned(t) == IF Negative(t) THEN Tail(t) ELSE t

\* int(text): surrounding whitespace is ignored, then an optional minus sign
\* and one or more digits; any other text over the characters used here
\* raises ValueError
IntOk(s) == LET t == Unsigned(Strip(s)) IN t # <<>> /\ AllDigits(t)
IntVal(s) ==
    LET t == Strip(s)
    IN IF Negative(t) THEN -DigitsVal(Tail(t)) ELSE DigitsVal(t)

\* float(text): surrounding whitespace is ignored, then an optional minus
\* sign and digits with at most one point and at least one digit; any other
\* text over the characters used here raises ValueError
FloatOk(s) ==
    LET t == Unsigned(Strip(s))
        k == Find(t, Dot)
        ip == IF k = 0 THEN t ELSE SubSeq(t, 1, k - 1)
        fp == IF k = 0 THEN <<>> ELSE SubSeq(t, k + 1, Len(t))
    IN /\ AllDigits(ip)
       /\ AllDigits(fp)
       /\ Len(ip) + Len(fp) > 0

\* the value in Scale units (two fraction digits are kept)
FloatVal(s) ==
    LET t == Unsigned(Strip(s))
        k == Find(t, Dot)
        ip == IF k = 0 THEN t ELSE SubSeq(t, 1, k - 1)
        fp == IF k = 0 THEN <<>> ELSE SubSeq(t, k + 1, Len(t))
        f2 == SubSeq(fp \o <<"0", "0">>, 1, 2)
        v == Scale * DigitsVal(ip) + DigitsVal(f2)
    IN IF Negative(Strip(s)) THEN -v ELSE v

\* ------------------------------------------------------------- arithmetic
Abs(x) == IF x < 0 THEN -x ELSE x
Max(a, b) == IF a >= b THEN a ELSE b

\* quotient truncated toward zero, b # 0
TruncDiv(a, b) ==
    IF (a >= 0) = (b > 0) THEN Abs(a) \div Abs(b) ELSE -(Abs(a) \div Abs(b))

\* int(v) of a fixed-point value
IntOf(v) == TruncDiv(v, Scale)


\* ------------------------------------------------------------------ state
VARIABLES
    connected,           \* self.connected
    pc,                  \* where each receive thread stands
    buffer,              \* self.buffer, shared by every receive thread
    ui_queue,            \* calls of @mainthread methods not yet run
    bt_text,             \* BTconnection_textbox.text
    popup,               \* title of the popup opened last
    graph_count,         \* self.graph_count
    graph_info,          \* self.graph_info
    graphs,              \* graphs_container's Graph widgets, in creation order
    last_received_time,  \* self.last_received_time
    csv_log,             \* rows handed to csv.writer.writerow, in file order
    csv_session,         \* for each row, the connection it was received on
    nrecv,               \* chunks recv() has delivered
    sent,                \* the message sock.send() wrote last
    wire,                \* characters delivered to the single framer of FramerSpec
    configurations       \* configurations.json: the profile saved under each name

vars == <<connected, pc, buffer, ui_queue, bt_text, popup, graph_count,
          graph_info, graphs, last_received_time, csv_log, csv_session, nrecv,
          sent, wire, configurations>>

uiVars    == <<bt_text, popup>>
graphVars == <<graph_count, graph_info, graphs, last_received_time>>
netVars   == <<connected, pc, buffer>>
logVars   == <<csv_log, csv_session>>

Threads == 1..MaxThreads

\* the connections made so far, which is the number of the current one: each
\* successful connect() starts one receive thread
Connection == Cardinality({t \in Threads : pc[t] # "idle"})

\* a receive thread is running from Thread.start() until receive_messages returns
Running(t) == pc[t] \in {"start", "top", "recv"}
RunningThreads == {t \in Threads : Running(t)}

\* configurations.json does not exist
NoConfigurations == [name \in {} |-> <<>>]

\* ------------------------------------------------------------- line framer
\* the inner while loop of receive_messages: the lines cut off the buffer
RECURSIVE FrameLines(_)
FrameLines(buf) ==
    LET k == Find(buf, NL)
    IN IF k = 0 THEN <<>>
       ELSE <<SubSeq(buf, 1, k - 1)>> \o FrameLines(SubSeq(buf, k + 1, Len(buf)))

\* the buffer is emptied once its lines are handed on
FrameRestCleared(buf) == <<>>

\* ... and what is left in self.buffer when the loop ends
RECURSIVE FrameRest(_)
FrameRest(buf) ==
    LET k == Find(buf, NL)
    IN IF k = 0 THEN buf ELSE FrameRest(SubSeq(buf, k + 1, Len(buf)))

\* ---------------------------------------------------------- store_to_csv
\* the line itself is given to writerow, which takes each character for a field
CsvRowOfChars(data) == [i \in 1..Len(Strip(data)) |-> <<Strip(data)[i]>>]

\* the row writer.writerow receives
CsvRow(data) == Split(Strip(data), Comma)

\* the log after store_to_csv(data) for each line; ok[i] is FALSE when the
\* open or the write of line i raises (caught and printed)
RECURSIVE StoreAll(_, _, _)
StoreAll(log, lines, ok) ==
    IF lines = <<>> THEN log
    ELSE StoreAll(IF Head(ok) THEN Append(log, CsvRow(Head(lines))) ELSE log,
                  Tail(lines), Tail(ok))


\* ----------------------------------------------------------- update_graph
\* float(values[i + 1]), then the conversion chosen by graph_type
FieldY(info, field) ==
    IF info.graph_type = "Resistance"
    THEN TruncDiv(FloatVal(field) * info.axis_limit * Scale, VRef - FloatVal(field))
    ELSE FloatVal(field)

\* what raises inside the loop body for graph i (0-based): IndexError from
\* children[-(i + 1)], graph_info[i] or values[i + 1], ValueError from
\* float(), ZeroDivisionError from the division
BodyRaises(gs, infos, values, i) ==
    \/ i + 1 > Len(gs)
    \/ i + 1 > Len(infos)
    \/ i + 2 > Len(values)
    \/ ~FloatOk(values[i + 2])
    \/ /\ infos[i + 1].graph_type = "Resistance"
       /\ VRef - FloatVal(values[i + 2]) = 0

\* plot.points.append, then the xmax and ymax updates
PlotPoint(g, time, y) ==
    [points |-> Append(g.points, <<time, y>>),
     xmax   |-> Max(g.xmax, time),
     ymax   |-> IF y > IntOf(g.ymax) * Scale
                THEN TruncDiv(Max(IntOf(g.ymax) * Scale, y) * 11, 10)
                ELSE g.ymax]

\* for i in range(self.graph_count): the graphs when the loop ends, and
\* whether it ran to its end (raised FALSE) or was left by an exception
RECURSIVE GraphLoop(_, _, _, _, _, _)
GraphLoop(gs, infos, count, values, time, i) ==
    IF i >= count THEN [graphs |-> gs, raised |-> FALSE]
    ELSE IF BodyRaises(gs, infos, values, i) THEN [graphs |-> gs, raised |-> TRUE]
    ELSE GraphLoop([gs EXCEPT ![i + 1] =
                       PlotPoint(gs[i + 1], time, FieldY(infos[i + 1], values[i + 2]))],
                   infos, count, values, time, i + 1)

\* a repeated timestamp is taken for a new one
IsNewTimeOrRepeat(time, last) == time >= last

\* if time > self.last_received_time
IsNewTime(time, last) == time > last

\* lines of any field count are taken for records
HasAnyArity(values) == TRUE

\* if len(values) == 5
HasArity(values) == Len(values) = Arity

\* update_graph(data): the graphs and last_received_time it leaves
UpdateGraph(gs, infos, count, last, data) ==
    LET values == Split(Strip(data), Comma)
        same == [graphs |-> gs, last |-> last]
    IN IF ~HasArity(values) THEN same
       ELSE IF ~IntOk(values[1]) THEN same
       ELSE IF ~IsNewTime(IntVal(values[1]), last) THEN same
       ELSE LET r == GraphLoop(gs, infos, count, values, IntVal(values[1]), 0)
            IN [graphs |-> r.graphs,
                last   |-> IF r.raised THEN last ELSE IntVal(values[1])]

\* ---------------------------------------------------------- @mainthread
GraphCall(line) == [op |-> "update_graph", arg |-> line]
TextCall(msg)   == [op |-> "update_BTconnection_textbox", arg |-> msg]

RECURSIVE GraphCalls(_)
GraphCalls(lines) ==
    IF lines = <<>> THEN <<>> ELSE <<GraphCall(Head(lines))>> \o GraphCalls(Tail(lines))

\* the main thread runs the oldest pending call
RunCallback ==
    /\ ui_queue # <<>>
    /\ ui_queue' = Tail(ui_queue)
    /\ IF Head(ui_queue).op = "update_graph"
       THEN LET r == UpdateGraph(graphs, graph_info, graph_count,
                                 last_received_time, Head(ui_queue).arg)
            IN /\ graphs' = r.graphs
               /\ last_received_time' = r.last
               /\ UNCHANGED bt_text
       ELSE /\ bt_text' = Head(ui_queue).arg
            /\ UNCHANGED <<graphs, last_received_time>>
    /\ UNCHANGED <<netVars, popup, graph_count, graph_info, logVars, nrecv, sent,
                   wire, configurations>>


\* ------------------------------------------------------------ UI handlers
\* the graph is added but not counted
CreatedUncounted(c, axis_limit, graph_type) ==
    [graphs      |-> Append(c.graphs, [points |-> <<>>, xmax |-> XMax0,
                                       ymax |-> axis_limit * Scale]),
     graph_info  |-> Append(c.graph_info,
                            [axis_limit |-> axis_limit, graph_type |-> graph_type]),
     graph_count |-> c.graph_count]

\* create_graph(graph_name, axis_limit, graph_type): the container,
\* graph_info and graph_count it leaves
Created(c, axis_limit, graph_type) ==
    [graphs      |-> Append(c.graphs, [points |-> <<>>, xmax |-> XMax0,
                                       ymax |-> axis_limit * Scale]),
     graph_info  |-> Append(c.graph_info,
                            [axis_limit |-> axis_limit, graph_type |-> graph_type]),
     graph_count |-> c.graph_count + 1]

CreateGraph(axis_limit, graph_type) ==
    LET c == Created([graphs |-> graphs, graph_info |-> graph_info,
                      graph_count |-> graph_count], axis_limit, graph_type)
    IN /\ graphs' = c.graphs
       /\ graph_info' = c.graph_info
       /\ graph_count' = c.graph_count

\* what the user may have typed into reference_input
LimitTexts == {<<"4">>, <<"x">>}
ConfigLimitTexts == {<<"4">>, <<"0">>, <<"x">>}
GraphTypes == {"Resistance", "Voltage"}

\* button_create_graph() with one of texts typed in and fewer than max
\* graphs shown: int() of the text, ValueError opens a popup
ButtonCreateGraphFrom(texts, max) ==
    \E text \in texts, graph_type \in GraphTypes :
        /\ Len(graphs) < max
        /\ IF IntOk(text)
           THEN CreateGraph(IntVal(text), graph_type) /\ UNCHANGED popup
           ELSE popup' = "Input Error" /\ UNCHANGED <<graph_count, graph_info, graphs>>
        /\ UNCHANGED <<netVars, ui_queue, bt_text, last_received_time,
                       logVars, nrecv, sent, wire, configurations>>

ButtonCreateGraph == ButtonCreateGraphFrom(LimitTexts, MaxGraphs)

\* json.dump of an int: its decimal digits behind the sign
DigitText == <<"0", "1", "2", "3", "4", "5", "6", "7", "8", "9">>

RECURSIVE NatText(_)
NatText(n) ==
    IF n < 10 THEN <<DigitText[n + 1]>>
    ELSE NatText(n \div 10) \o <<DigitText[(n % 10) + 1]>>

IntText(n) == IF n < 0 THEN <<Minus>> \o NatText(-n) ELSE NatText(n)

\* what json.dump writes for graph_info (the graph names are left out)
Dumped(infos) ==
    [i \in 1..Len(infos) |-> [axis_limit |-> IntText(infos[i].axis_limit),
                              graph_type |-> infos[i].graph_type]]

\* what the user may have typed into save_graph_config_name and into
\* load_graph_config_name
SaveNames == {"a"}
LoadNames == {"a", "b"}

\* save_graph_config(): the file is read, or taken as empty when missing,
\* and written back with graph_info under save_name
SaveGraphConfig ==
    \E save_name \in SaveNames :
        /\ configurations' =
               [name \in DOMAIN configurations \cup {save_name} |->
                   IF name = save_name THEN Dumped(graph_info)
                   ELSE configurations[name]]
        /\ UNCHANGED <<netVars, ui_queue, uiVars, graphVars, logVars, nrecv, sent,
                       wire>>

\* for graph_data in save: create_graph(name, int(axis_limit), graph_type)
RECURSIVE LoadLoop(_, _)
LoadLoop(c, save) ==
    IF save = <<>> THEN c
    ELSE LoadLoop(Created(c, IntVal(Head(save).axis_limit), Head(save).graph_type),
                  Tail(save))

\* load_graph_config(): a missing file is only printed; a name that is in
\* the file resets the graphs and creates the saved ones; any other name
\* opens a popup
LoadGraphConfig ==
    \E save_name \in LoadNames :
        /\ IF configurations = NoConfigurations
           THEN UNCHANGED <<graphVars, popup>>
           ELSE IF save_name \in DOMAIN configurations
           THEN LET c == LoadLoop([graphs |-> <<>>, graph_info |-> <<>>,
                                   graph_count |-> 0], configurations[save_name])
                IN /\ graphs' = c.graphs
                   /\ graph_info' = c.graph_info
                   /\ graph_count' = c.graph_count
                   /\ last_received_time' = 0
                   /\ UNCHANGED popup
           ELSE popup' = "Save Not Found" /\ UNCHANGED graphVars
        /\ UNCHANGED <<netVars, ui_queue, bt_text, logVars, nrecv, sent, wire,
                       configurations>>

\* the graphs are cleared but the last accepted timestamp is kept
ResetGraphsKeepsTime ==
    /\ graphs' = <<>>
    /\ graph_info' = <<>>
    /\ graph_count' = 0
    /\ UNCHANGED <<netVars, ui_queue, uiVars, last_received_time, logVars, nrecv,
                   sent, wire, configurations>>

\* reset_graphs()
ResetGraphs ==
    /\ graphs' = <<>>
    /\ graph_info' = <<>>
    /\ graph_count' = 0
    /\ last_received_time' = 0
    /\ UNCHANGED <<netVars, ui_queue, uiVars, logVars, nrecv, sent, wire, configurations>>

\* start_receiving_thread(): the thread the next Thread() call creates
FreshThread == CHOOSE t \in Threads : pc[t] = "idle" /\ \A u \in Threads : pc[u] = "idle" => t <= u

\* connect(): the socket connects
ConnectOk ==
    /\ \E t \in Threads : pc[t] = "idle"
    /\ Len(ui_queue) < MaxQueue
    /\ connected' = TRUE
    /\ ui_queue' = Append(ui_queue, TextCall("Connected to ESP32!"))
    /\ pc' = [pc EXCEPT ![FreshThread] = "start"]
    /\ UNCHANGED <<buffer, uiVars, graphVars, logVars, nrecv, sent, wire, configurations>>

\* connect(): BluetoothSocket() or sock.connect() raises
ConnectFail ==
    /\ Len(ui_queue) < MaxQueue
    /\ connected' = FALSE
    /\ ui_queue' = Append(ui_queue, TextCall("Error Connecting"))
    /\ UNCHANGED <<pc, buffer, uiVars, graphVars, logVars, nrecv, sent, wire, configurations>>

\* toggle_on_autoupdate() and toggle_off_autoupdate()
Commands == {"TOGGLE ON AUTOUPDATE", "TOGGLE OFF AUTOUPDATE"}

\* send_string_over_bluetooth(message) while connected: sock.send() returns
SendOk ==
    /\ connected
    /\ \E message \in Commands : sent' = message
    /\ UNCHANGED <<netVars, ui_queue, uiVars, graphVars, logVars, nrecv, wire, configurations>>

\* ... sock.send() raises
SendFail ==
    /\ connected
    /\ Len(ui_queue) < MaxQueue
    /\ connected' = FALSE
    /\ ui_queue' = Append(ui_queue, TextCall("Error sending message"))
    /\ UNCHANGED <<pc, buffer, uiVars, graphVars, logVars, nrecv, sent, wire, configurations>>

\* the message is written although the connection is down
SendNotConnectedWrites ==
    /\ ~connected
    /\ Len(ui_queue) < MaxQueue
    /\ \E message \in Commands : sent' = message
    /\ ui_queue' = Append(ui_queue, TextCall("Not connected to Bluetooth"))
    /\ UNCHANGED <<netVars, uiVars, graphVars, logVars, nrecv, wire, configurations>>

\* ... while not connected
SendNotConnected ==
    /\ ~connected
    /\ Len(ui_queue) < MaxQueue
    /\ ui_queue' = Append(ui_queue, TextCall("Not connected to Bluetooth"))
    /\ UNCHANGED <<netVars, uiVars, graphVars, logVars, nrecv, sent, wire, configurations>>

\* --------------------------------------------------------- receive thread
\* self.buffer = ""
ThreadStart(t) ==
    /\ pc[t] = "start"
    /\ buffer' = <<>>
    /\ pc' = [pc EXCEPT ![t] = "top"]
    /\ UNCHANGED <<connected, ui_queue, uiVars, graphVars, logVars, nrecv, sent,
                   wire, configurations>>

\* while self.connected: enter recv() or leave the loop
LoopTop(t) ==
    /\ pc[t] = "top"
    /\ pc' = [pc EXCEPT ![t] = IF connected THEN "recv" ELSE "done"]
    /\ UNCHANGED <<connected, buffer, ui_queue, uiVars, graphVars, logVars,
                   nrecv, sent, wire, configurations>>

\* a row the disk refuses ends the loop as a read error does
ReceiveEndsOnStoreError(t, data, ok) ==
    LET lines == FrameLines(buffer \o data)
        failed == \E i \in 1..Len(ok) : ~ok[i]
    IN /\ pc[t] = "recv"
       /\ buffer' = FrameRest(buffer \o data)
       /\ ui_queue' = ui_queue \o GraphCalls(lines)
       /\ csv_log' = StoreAll(csv_log, lines, ok)
       /\ csv_session' = csv_session \o
              [i \in 1..(Len(csv_log') - Len(csv_log)) |-> Connection]
       /\ pc' = [pc EXCEPT ![t] = IF failed THEN "done" ELSE "top"]
       /\ connected' = (connected /\ ~failed)
       /\ nrecv' = nrecv + 1
       /\ UNCHANGED <<uiVars, graphVars, sent>>

\* recv() returns data: the buffer grows, every complete line is handed to
\* update_graph (deferred to the main thread) and to store_to_csv
Receive(t, data, ok) ==
    LET lines == FrameLines(buffer \o data)
    IN /\ pc[t] = "recv"
       /\ buffer' = FrameRest(buffer \o data)
       /\ ui_queue' = ui_queue \o GraphCalls(lines)
       /\ csv_log' = StoreAll(csv_log, lines, ok)
       /\ csv_session' = csv_session \o
              [i \in 1..(Len(csv_log') - Len(csv_log)) |-> Connection]
       /\ pc' = [pc EXCEPT ![t] = "top"]
       /\ nrecv' = nrecv + 1
       /\ UNCHANGED <<connected, uiVars, graphVars, sent>>

\* recv() returns no data: the peer closed
RecvEmpty(t) ==
    /\ pc[t] = "recv"
    /\ Len(ui_queue) < MaxQueue
    /\ connected' = FALSE
    /\ ui_queue' = Append(ui_queue, TextCall("Bluetooth connection lost"))
    /\ popup' = "Bluetooth Connection Lost"
    /\ pc' = [pc EXCEPT ![t] = "done"]
    /\ UNCHANGED <<buffer, bt_text, graphVars, logVars, nrecv, sent, wire, configurations>>

\* the exception is reported but self.connected is left as it is
RecvErrorStaysConnected(t) ==
    /\ pc[t] = "recv"
    /\ Len(ui_queue) < MaxQueue
    /\ ui_queue' = Append(ui_queue, TextCall("Error receiving message"))
    /\ pc' = [pc EXCEPT ![t] = "done"]
    /\ UNCHANGED <<connected, buffer, uiVars, graphVars, logVars, nrecv, sent,
                   wire, configurations>>

\* recv() or decode() raises
RecvError(t) ==
    /\ pc[t] = "recv"
    /\ Len(ui_queue) < MaxQueue
    /\ connected' = FALSE
    /\ ui_queue' = Append(ui_queue, TextCall("Error receiving message"))
    /\ pc' = [pc EXCEPT ![t] = "done"]
    /\ UNCHANGED <<buffer, uiVars, graphVars, logVars, nrecv, sent, wire, configurations>>

\* ------------------------------------------------------ what the device sends
RECURSIVE Join(_, _)
Join(fields, sep) ==
    IF Len(fields) = 0 THEN <<>>
    ELSE IF Len(fields) = 1 THEN fields[1]
    ELSE fields[1] \o <<sep>> \o Join(Tail(fields), sep)

TimeTexts == {<<"0">>, <<"1">>, <<"2">>}
Good == <<"1">>
Junk == <<"x">>
Rail == <<"3", ".", "3">>

\* five-field records: every reading parseable, ...
GoodRecords == {Join(<<t, Good, Good, Good, Good>>, Comma) : t \in TimeTexts}

\* ... or one reading that float() rejects or that equals the 3.3 V rail
OddRecords == {Join(<<<<"1">>, Good, Junk, Good, Good>>, Comma),
               Join(<<<<"2">>, Rail, Good, Good, Good>>, Comma)}

\* lines with the wrong field count or a timestamp int() rejects
BadLines == {Join(<<<<"2">>, Good>>, Comma),
             Join(<<<<"1", ".", "0">>, Good, Good, Good, Good>>, Comma)}

\* a record cut before its terminator, and the rest of it
HeadChunk == <<"2", ",", "1", ",", "1">>
TailChunk == <<",", "1", ",", "1", CR, NL>>

Terminated(lines) == {l \o <<NL>> : l \in lines}

\* what recv() may return in Spec and in PipeSpec
NetChunks  == Terminated({Join(<<<<"1">>, Good, Good, Good, Good>>, Comma)})
                  \cup {HeadChunk, TailChunk}
PipeChunks == Terminated(GoodRecords \cup OddRecords \cup BadLines)

AllStored(n) == [i \in 1..n |-> TRUE]

\* recv() returns one of chunks; any store_to_csv call may fail
RecvData(t) ==
    \E data \in NetChunks :
        LET n == Len(FrameLines(buffer \o data))
        IN /\ nrecv < MaxNetRecv
           /\ Len(ui_queue) + n <= MaxQueue
           /\ \E ok \in [1..n -> BOOLEAN] : Receive(t, data, ok)
           /\ UNCHANGED <<wire, configurations>>

\* recv() returns a whole record line and the disk takes every row; the
\* characters received are kept in wire
RecvRecord(t) ==
    \E data \in PipeChunks :
        LET n == Len(FrameLines(buffer \o data))
        IN /\ nrecv < MaxRecv
           /\ Len(ui_queue) + n <= MaxQueue
           /\ Receive(t, data, AllStored(n))
           /\ wire' = wire \o data
           /\ UNCHANGED configurations

\* lines of every kind the pipeline tells apart: a record, a record with a
\* reading float() rejects, a short line, and timestamps that int() rejects
\* or reads as negative
FaultyLines == {Join(<<<<"1">>, Good, Good, Good, Good>>, Comma),
                Join(<<<<"1">>, Good, Junk, Good, Good>>, Comma),
                Join(<<<<"2">>, Good>>, Comma),
                Join(<<<<"1", ".", "0">>, Good, Good, Good, Good>>, Comma),
                Join(<<<<Minus, "1">>, Good, Good, Good, Good>>, Comma)}

FaultyChunks == Terminated(FaultyLines)

\* recv() returns a whole line; its store_to_csv call may fail
RecvFaulty(t) ==
    \E data \in FaultyChunks, stored \in BOOLEAN :
        /\ nrecv < MaxRecv
        /\ Len(ui_queue) + 1 <= MaxQueue
        /\ Receive(t, data, <<stored>>)
        /\ UNCHANGED <<wire, configurations>>

\* records whose first reading lies above the axis limit of a new graph
TallReadings == {<<"5", ".", "4">>, <<"5", ".", "1">>}
TallRecords ==
    {Join(<<t, r, Good, Good, Good>>, Comma) : t \in TimeTexts, r \in TallReadings}

\* recv() returns one of them and the disk takes the row
RecvTall(t) ==
    \E data \in Terminated(TallRecords) :
        /\ nrecv < MaxRecv
        /\ Len(ui_queue) + 1 <= MaxQueue
        /\ Receive(t, data, AllStored(1))
        /\ UNCHANGED <<wire, configurations>>

\* a record with the head of the next one behind it, and the tail of that
SplitChunks == {r \o <<NL>> \o HeadChunk : r \in GoodRecords} \cup {TailChunk}

\* recv() returns one of them and the disk takes every row
RecvSplit(t) ==
    \E data \in SplitChunks :
        LET n == Len(FrameLines(buffer \o data))
        IN /\ nrecv < MaxRecv
           /\ Len(ui_queue) + n <= MaxQueue
           /\ Receive(t, data, AllStored(n))
           /\ UNCHANGED <<wire, configurations>>

\* ----------------------------------------------------------- specification
\* after on_start()
Init ==
    /\ connected = FALSE
    /\ pc = [t \in Threads |-> "idle"]
    /\ buffer = <<>>
    /\ ui_queue = <<>>
    /\ bt_text = ""
    /\ popup = ""
    /\ graph_count = 0
    /\ graph_info = <<>>
    /\ graphs = <<>>
    /\ last_received_time = 0
    /\ csv_log = <<>>
    /\ csv_session = <<>>
    /\ nrecv = 0
    /\ sent = ""
    /\ wire = <<>>
    /\ configurations = NoConfigurations

Next ==
    \/ ButtonCreateGraph
    \/ ResetGraphs
    \/ ConnectOk
    \/ ConnectFail
    \/ SendOk
    \/ SendFail
    \/ SendNotConnected
    \/ RunCallback
    \/ \E t \in Threads : ThreadStart(t)
    \/ \E t \in Threads : LoopTop(t)
    \/ \E t \in Threads : RecvData(t)
    \/ \E t \in Threads : RecvEmpty(t)
    \/ \E t \in Threads : RecvError(t)

Spec == Init /\ [][Next]_vars


\* One connection, its receive thread blocked in recv(): the state Spec
\* reaches by ConnectOk, ThreadStart(1), RunCallback, LoopTop(1).
PipeInit ==
    /\ connected = TRUE
    /\ pc = [t \in Threads |-> IF t = 1 THEN "recv" ELSE "idle"]
    /\ buffer = <<>>
    /\ ui_queue = <<>>
    /\ bt_text = "Connected to ESP32!"
    /\ popup = ""
    /\ graph_count = 0
    /\ graph_info = <<>>
    /\ graphs = <<>>
    /\ last_received_time = 0
    /\ csv_log = <<>>
    /\ csv_session = <<>>
    /\ nrecv = 0
    /\ sent = ""
    /\ wire = <<>>
    /\ configurations = NoConfigurations

PipeNext ==
    \/ ButtonCreateGraph
    \/ ResetGraphs
    \/ RunCallback
    \/ LoopTop(1)
    \/ RecvRecord(1)

PipeSpec == PipeInit /\ [][PipeNext]_vars


\* The connection and its receive threads alone: no graph is configured.
NetNext ==
    \/ ConnectOk
    \/ ConnectFail
    \/ SendOk
    \/ SendFail
    \/ SendNotConnected
    \/ RunCallback
    \/ \E t \in Threads : ThreadStart(t)
    \/ \E t \in Threads : LoopTop(t)
    \/ \E t \in Threads : RecvData(t)
    \/ \E t \in Threads : RecvEmpty(t)
    \/ \E t \in Threads : RecvError(t)

NetSpec == Init /\ [][NetNext]_vars


\* One connection and a user who goes on creating graphs.
RegistryNext ==
    \/ ButtonCreateGraphFrom(LimitTexts, MaxChannels)
    \/ RunCallback
    \/ LoopTop(1)
    \/ RecvRecord(1)

RegistrySpec == PipeInit /\ [][RegistryNext]_vars


\* One connection whose device reports readings above the axis limit.
AxisNext ==
    \/ ButtonCreateGraph
    \/ ResetGraphs
    \/ RunCallback
    \/ LoopTop(1)
    \/ RecvTall(1)

AxisSpec == PipeInit /\ [][AxisNext]_vars


\* One connection and a user who creates graphs with any integer typed in,
\* saves them, loads them back and resets them.
ConfigNext ==
    \/ ButtonCreateGraphFrom(ConfigLimitTexts, MaxGraphs)
    \/ SaveGraphConfig
    \/ LoadGraphConfig
    \/ ResetGraphs
    \/ RunCallback
    \/ LoopTop(1)
    \/ RecvData(1)

ConfigSpec == PipeInit /\ [][ConfigNext]_vars


\* The same with the axis limits of PipeSpec.
CountNext ==
    \/ ButtonCreateGraph
    \/ SaveGraphConfig
    \/ LoadGraphConfig
    \/ ResetGraphs
    \/ RunCallback
    \/ LoopTop(1)
    \/ RecvData(1)

CountSpec == PipeInit /\ [][CountNext]_vars


\* One connection whose chunks end inside a record, and a user who creates
\* and resets graphs.
ResetNext ==
    \/ ButtonCreateGraph
    \/ ResetGraphs
    \/ RunCallback
    \/ LoopTop(1)
    \/ RecvSplit(1)

ResetSpec == PipeInit /\ [][ResetNext]_vars


\* Connections made, lost and made again, each delivering record lines.
SessionNext ==
    \/ ConnectOk
    \/ RunCallback
    \/ \E t \in Threads : ThreadStart(t)
    \/ \E t \in Threads : LoopTop(t)
    \/ \E t \in Threads : RecvRecord(t)
    \/ \E t \in Threads : RecvEmpty(t)

SessionSpec == Init /\ [][SessionNext]_vars


\* One connection whose loop receives lines of every kind while the disk may
\* refuse any row; the connection itself is not lost.
LoopNext ==
    \/ ButtonCreateGraph
    \/ RunCallback
    \/ LoopTop(1)
    \/ RecvFaulty(1)

LoopSpec == PipeInit /\ [][LoopNext]_vars


\* One receive loop fed an arbitrary character stream in arbitrary non-empty
\* chunks; the main thread does not run, so ui_queue keeps every line emitted.
FramerChars == {"1", CR, NL}

FramerChunks == UNION {[1..n -> FramerChars] : n \in 1..MaxStream}

FramerFeed ==
    \E data \in FramerChunks :
        /\ Len(wire) + Len(data) <= MaxStream
        /\ Receive(1, data, AllStored(Len(FrameLines(buffer \o data))))
        /\ wire' = wire \o data
        /\ UNCHANGED configurations

FramerNext ==
    \/ FramerFeed
    \/ LoopTop(1)

FramerSpec == PipeInit /\ [][FramerNext]_vars

\* ------------------------------------------------------------------ claims
\* the timestamps of a series
Times(points) == [i \in 1..Len(points) |-> points[i][1]]

StrictlyIncreasing(ts) == \A i \in 1..(Len(ts) - 1) : ts[i] < ts[i + 1]

\* the call the main thread is about to run is update_graph(line)
GraphCallNext == ui_queue # <<>> /\ Head(ui_queue).op = "update_graph"
NextLine == Head(ui_queue).arg

\* this step is the main thread running that call
GraphCallRuns == GraphCallNext /\ ui_queue' = Tail(ui_queue)

FieldsOf(line) == Split(Strip(line), Comma)

\* a line with five fields and an integer timestamp
WellFormed(line) == Len(FieldsOf(line)) = Arity /\ IntOk(FieldsOf(line)[1])
TimeOf(line) == IntVal(FieldsOf(line)[1])

\* C1: in every reachable state every channel's series is strictly
\* increasing by timestamp.
C1_SeriesStrictlyIncreasing ==
    \A g \in 1..Len(graphs) : StrictlyIncreasing(Times(graphs[g].points))

\* C2: a record whose timestamp is not above the last accepted one changes
\* no series length, no axis bound and not the last accepted timestamp.
C2_StaleRecordRejected ==
    [][(/\ GraphCallRuns
        /\ WellFormed(NextLine)
        /\ TimeOf(NextLine) <= last_received_time)
       => (/\ last_received_time' = last_received_time
           /\ Len(graphs') = Len(graphs)
           /\ \A g \in 1..Len(graphs) :
                 /\ Len(graphs'[g].points) = Len(graphs[g].points)
                 /\ graphs'[g].xmax = graphs[g].xmax
                 /\ graphs'[g].ymax = graphs[g].ymax)]_vars

\* a record repeating the last accepted timestamp is about to be processed
\* by a channel that already holds a sample
C2_Witness ==
    /\ GraphCallNext
    /\ WellFormed(NextLine)
    /\ last_received_time > 0
    /\ TimeOf(NextLine) = last_received_time
    /\ graph_count > 0
    /\ graphs[1].points # <<>>


\* a reading as the wire protocol writes it: digits with at most one point
PlainNumber(f) == FloatOk(f) /\ Strip(f) = f

\* the channel's transform of this reading fails: not a number, or the
\* division singularity of the voltage-to-resistance conversion
TransformFails(info, f) ==
    \/ ~FloatOk(f)
    \/ info.graph_type = "Resistance" /\ FloatVal(f) = VRef

\* a five-field record with an integer timestamp and four readings no
\* transform fails on
ValidRecord(line) ==
    /\ WellFormed(line)
    /\ \A k \in 2..Arity : PlainNumber(FieldsOf(line)[k]) /\ FloatVal(FieldsOf(line)[k]) # VRef

\* one to four channels, all created before the first record since the
\* reset, whose series hold every record processed since then
ChannelsInStep ==
    /\ graph_count >= 1
    /\ graph_count <= Arity - 1
    /\ graph_count = Len(graphs)
    /\ graph_count = Len(graph_info)
    /\ \A g \in 1..Len(graphs) :
          /\ Times(graphs[g].points) = Times(graphs[1].points)
          /\ StrictlyIncreasing(Times(graphs[g].points))
    /\ last_received_time =
          IF graphs[1].points = <<>> THEN 0
          ELSE graphs[1].points[Len(graphs[1].points)][1]

\* C3: each valid record whose timestamp is above those processed since the
\* reset (any timestamp >= 0 for the first one) adds one sample to every
\* channel, so the series length equals the number of records processed.
C3_EveryIncreasingRecordCounts ==
    [][(/\ GraphCallRuns
        /\ ValidRecord(NextLine)
        /\ ChannelsInStep
        /\ \/ graphs[1].points = <<>>
           \/ TimeOf(NextLine) > last_received_time)
       => \A g \in 1..Len(graphs) :
             Len(graphs'[g].points) = Len(graphs[g].points) + 1]_vars

\* the line the receive loop hands on in this step, when it is the only
\* pending call
LineEmitted ==
    /\ ui_queue = <<>>
    /\ Len(ui_queue') = 1
    /\ ui_queue'[1].op = "update_graph"

\* C4: the log gains one row for a line the pipeline accepts (five fields,
\* integer timestamp above the last accepted one) and none for a line it
\* rejects.
C4_OneRowPerAcceptedRecord ==
    [][LineEmitted =>
         LET line == ui_queue'[1].arg
             accepted == WellFormed(line) /\ TimeOf(line) > last_received_time
         IN csv_log' = IF accepted THEN Append(csv_log, FieldsOf(line)) ELSE csv_log]_vars

\* the lines of the characters received so far, terminator stripped
WireLines == LET parts == Split(wire, NL) IN SubSeq(parts, 1, Len(parts) - 1)

\* a record as the wire protocol defines it
WireRecord(line) ==
    LET fields == Split(line, Comma)
    IN /\ Len(fields) = Arity
       /\ fields[1] # <<>> /\ AllDigits(fields[1])
       /\ \A k \in 2..Arity : PlainNumber(fields[k])

\* C5: with every write succeeding, the log read back holds one row per line
\* received, in arrival order, and the row of a valid record holds its field
\* strings as sent, whatever the transform kinds of the channels.
C5_LogKeepsOriginalFields ==
    LET lines == WireLines
    IN /\ Len(csv_log) = Len(lines)
       /\ \A i \in 1..Len(lines) :
             WireRecord(lines[i]) /\ i <= Len(csv_log)
                 => csv_log[i] = Split(lines[i], Comma)

\* two valid records are in the log while a voltage-to-resistance channel has
\* charted a converted sample of them
C5_Witness ==
    /\ Len(WireLines) = 2
    /\ WireRecord(WireLines[1]) /\ WireRecord(WireLines[2])
    /\ WireLines[1] # WireLines[2]
    /\ Len(csv_log) = 2
    /\ \E g \in 1..Len(graphs) :
          /\ g <= Len(graph_info)
          /\ graph_info[g].graph_type = "Resistance"
          /\ graphs[g].points # <<>>

\* the lines the receive loop has emitted, in order (FramerSpec runs no callback)
EmittedLines == [i \in 1..Len(ui_queue) |-> ui_queue[i].arg]

\* C6: however the stream is cut into chunks, the lines emitted are the
\* stream split on the terminator, and the unterminated tail is what the
\* buffer holds.
C6_FramingIndependentOfChunking ==
    LET parts == Split(wire, NL)
    IN /\ EmittedLines = SubSeq(parts, 1, Len(parts) - 1)
       /\ buffer = parts[Len(parts)]

\* a stream delivered one character at a time has produced a non-empty line
\* and holds an unterminated tail
C6_Witness ==
    /\ nrecv = Len(wire)
    /\ nrecv >= 3
    /\ ui_queue # <<>>
    /\ ui_queue[1].arg # <<>>
    /\ buffer # <<>>

C8_OneReceiveLoop == Cardinality(RunningThreads) <= 1

\* C9: while the connection state is not Connected no chunk is received into
\* the buffer and no line reaches update_graph or the log.
C9_FedOnlyWhileConnected ==
    [][~connected =>
         /\ nrecv' = nrecv
         /\ csv_log' = csv_log
         /\ ~(Len(ui_queue') > Len(ui_queue)
              /\ ui_queue'[Len(ui_queue')].op = "update_graph")]_vars

\* this step is recv() of thread t returning without data: zero bytes, or
\* an exception
RecvEnds(t) == pc[t] = "recv" /\ pc'[t] # "recv" /\ nrecv' = nrecv

LossReports == {"Bluetooth connection lost", "Error receiving message"}

\* C10: when recv() returns zero bytes or raises, the state leaves
\* Connected, the loss is reported and the loop ends without processing a
\* further line, in both cases alike.
C10_LossEndsLoop ==
    [][\A t \in Threads :
         RecvEnds(t) =>
            /\ ~connected'
            /\ pc'[t] = "done"
            /\ Len(ui_queue') = Len(ui_queue) + 1
            /\ ui_queue'[Len(ui_queue')].op = "update_BTconnection_textbox"
            /\ ui_queue'[Len(ui_queue')].arg \in LossReports
            /\ buffer' = buffer
            /\ csv_log' = csv_log]_vars

\* a loop has ended on a read exception while a line was left in the buffer
C10_Witness ==
    /\ \E t \in Threads : pc[t] = "done"
    /\ ~connected
    /\ buffer # <<>>
    /\ ui_queue # <<>>
    /\ ui_queue[Len(ui_queue)] = TextCall("Error receiving message")

\* this step queues the connection textbox message msg
Reports(msg) ==
    /\ Len(ui_queue') = Len(ui_queue) + 1
    /\ ui_queue'[Len(ui_queue')] = TextCall(msg)

\* this step is sock.send() writing a message
Writes == sent' # sent

\* C11: nothing is written to the transport while the state is not
\* Connected, and a send attempted then is reported and changes nothing
\* else; a failed write is reported, leaves Connected and is not repeated;
\* a write that succeeds reports nothing and leaves the state Connected.
C11_SendFailsWithoutRetry ==
    [][/\ ~connected => ~Writes
       /\ Reports("Not connected to Bluetooth")
             => ~connected /\ ~Writes /\ UNCHANGED netVars
       /\ Reports("Error sending message")
             => connected /\ ~connected' /\ ~Writes /\ UNCHANGED <<pc, buffer>>
       /\ Writes => connected /\ connected' /\ ui_queue' = ui_queue]_vars

\* after a message was written and a later write failed, a send attempted
\* while not Connected has been reported
C11_Witness ==
    /\ ~connected
    /\ sent \in Commands
    /\ bt_text = "Error sending message"
    /\ ui_queue = <<TextCall("Not connected to Bluetooth")>>

\* this step is recv() returning a chunk
ChunkReceived == nrecv' = nrecv + 1

\* C12: with the connection itself never lost, whatever lines arrive (short,
\* unparseable, stale, with a reading no transform takes, or refused by the
\* disk) the state stays Connected and the loop stays in its cycle; every
\* line received is handed to update_graph, and running update_graph leaves
\* the loop and the connection alone.
C12_RecordFailuresKeepLoop ==
    [][/\ connected'
       /\ pc'[1] \in {"top", "recv"}
       /\ ChunkReceived
             => /\ pc'[1] = "top"
                /\ Len(ui_queue') = Len(ui_queue) + 1
                /\ ui_queue'[Len(ui_queue')].op = "update_graph"
       /\ GraphCallRuns => UNCHANGED netVars
       /\ pc[1] = "top" /\ pc' # pc => pc'[1] = "recv"]_vars

\* two lines were received and the disk refused both rows; the second line's
\* transform failed on channel 1 after channel 0 took its sample; the loop
\* is waiting in recv() again
C12_Witness ==
    /\ nrecv = 2
    /\ csv_log = <<>>
    /\ connected
    /\ pc[1] = "recv"
    /\ ui_queue = <<>>
    /\ Len(graphs) = 2
    /\ Len(graphs[1].points) = 1
    /\ graphs[2].points = <<>>
    /\ last_received_time = 0

\* a line update_graph must discard: not five fields, or a timestamp that
\* is not a non-negative integer
Malformed(line) ==
    \/ Len(FieldsOf(line)) # Arity
    \/ ~IntOk(FieldsOf(line)[1])
    \/ IntVal(FieldsOf(line)[1]) < 0

\* C13: running update_graph on a line with a field count other than 5, or
\* with a timestamp that is not a non-negative integer, changes no series,
\* no axis bound and not the last accepted timestamp, and leaves the
\* receive loop as it was.
C13_MalformedLineDiscarded ==
    [][(GraphCallRuns /\ Malformed(NextLine))
         => /\ graphs' = graphs
            /\ last_received_time' = last_received_time
            /\ UNCHANGED <<graph_count, graph_info, netVars>>]_vars

\* a short line with a timestamp above the last accepted one is about to be
\* processed by a channel that already holds a sample
C13_Witness ==
    /\ GraphCallNext
    /\ Len(FieldsOf(NextLine)) < Arity
    /\ IntOk(FieldsOf(NextLine)[1])
    /\ IntVal(FieldsOf(NextLine)[1]) > last_received_time
    /\ last_received_time > 0
    /\ graph_count > 0
    /\ graphs[1].points # <<>>
    /\ connected /\ pc[1] = "top"

\* C14: when update_graph runs on a valid record with a timestamp above the
\* last accepted one, every configured channel g (counted from 1) has its
\* own reading field g + 1 in the record and gains exactly the sample
\* derived from that field.
C14_ChannelReadsOwnField ==
    [][(/\ GraphCallRuns
        /\ ValidRecord(NextLine)
        /\ TimeOf(NextLine) > last_received_time
        /\ graph_count = Len(graphs)
        /\ graph_count = Len(graph_info))
       => \A g \in 1..graph_count :
             /\ g + 1 <= Len(FieldsOf(NextLine))
             /\ graphs'[g].points =
                    Append(graphs[g].points,
                           <<TimeOf(NextLine),
                             FieldY(graph_info[g], FieldsOf(NextLine)[g + 1])>>)]_vars

\* C15: running update_graph on a record never lowers the xmax or the ymax
\* of any graph.
C15_AxisBoundsNeverShrink ==
    [][GraphCallRuns
         => \A g \in 1..Len(graphs) :
               /\ graphs'[g].xmax >= graphs[g].xmax
               /\ graphs'[g].ymax >= graphs[g].ymax]_vars

\* C16: every channel of the registry has an axis limit above 0.
C16_DisplayLimitPositive ==
    \A i \in 1..Len(graph_info) : graph_info[i].axis_limit > 0

\* C20: in every reachable state graph_count, the length of graph_info and
\* the number of graphs in the container are equal.
C20_CountMatchesRegistry ==
    /\ graph_count = Len(graph_info)
    /\ graph_count = Len(graphs)

\* a profile of two graphs is in the file, a record was received, logged
\* and run by update_graph, and the two graphs shown now are fresh ones with
\* the last accepted timestamp back at 0: they were loaded or created again
\* after the record; a load under an unknown name has opened its popup
C20_Witness ==
    /\ "a" \in DOMAIN configurations
    /\ Len(configurations["a"]) = 2
    /\ graph_count = 2
    /\ \A g \in 1..Len(graphs) : graphs[g].points = <<>>
    /\ last_received_time = 0
    /\ csv_log = <<FieldsOf(Join(<<<<"1">>, Good, Good, Good, Good>>, Comma))>>
    /\ ui_queue = <<>>
    /\ popup = "Save Not Found"

\* this step empties the container, or takes back the last accepted
\* timestamp of an empty container
RegistryCleared ==
    /\ graphs' = <<>>
    /\ graphs # <<>> \/ last_received_time' < last_received_time

\* C19: a reset leaves no graph, no graph_info entry, graph_count 0 and the
\* last accepted timestamp 0, and it changes neither the connection state,
\* the receive loop's position, the buffer, the log nor the calls pending
\* on the main thread.
C19_ResetClearsOnlyRegistry ==
    [][RegistryCleared
         => /\ graph_info' = <<>>
            /\ graph_count' = 0
            /\ last_received_time' = 0
            /\ UNCHANGED <<netVars, ui_queue, uiVars, logVars, nrecv, sent>>]_vars

\* a graph holds a sample of an accepted record, the log holds its row, the
\* buffer holds the head of the next record and the loop is blocked in recv()
C19_Witness ==
    /\ graphs # <<>>
    /\ graphs[1].points # <<>>
    /\ last_received_time > 0
    /\ csv_log # <<>>
    /\ buffer = HeadChunk
    /\ connected
    /\ pc[1] = "recv"

\* C17: the rows of the log file (the one file the program appends to) were
\* all received on the same connection.
C17_OneFilePerSession ==
    \A i, j \in 1..Len(csv_session) : csv_session[i] = csv_session[j]

====
